---------------------------- MODULE Spec2Model ----------------------------
(***************************************************************************)
(* The authentication and credential-recovery workflow of the server's     *)
(* UserResolver (src/server/src/resolvers/user.ts): me, register, login,   *)
(* logout, forgotPassword and changePassword, run as concurrent requests   *)
(* against the User table, the session store, the redis token store and    *)
(* the mail transport.                                                     *)
(*                                                                         *)
(* A request occupies a slot.  Every action is one resumption of a         *)
(* handler: the external operation it was awaiting takes effect and the    *)
(* handler runs on, synchronously, to its next await or to its return.     *)
(* The call of a handler is merged with its first resumption.  A handler   *)
(* that has returned keeps its response in its slot until the response is  *)
(* delivered, which happens before any request moves on (NoneDone).        *)
(*                                                                         *)
(* Strings are sequences of one-character strings, so that length and      *)
(* includes("@") are computed and not assumed.                             *)
(*                                                                         *)
(* The client's useIsAuth hook (src/unnamed/part_000) is a second machine: *)
(* a component that renders, the effect of a render, the me query it       *)
(* reads, and the router.  SpecHook runs it, under the fairness of React's *)
(* scheduling; Spec runs the server.                                       *)
(***************************************************************************)
EXTENDS Naturals, Sequences, FiniteSets, TLC

\* ------------------------------------------------------------- bounds
\* requests that can be in flight at once
MaxInFlight == 2
\* tokens v4() hands out in a run
MaxTokens == 2
\* clock advances in a run
MaxTicks == 1
\* requests the clients make in a run
MaxCalls == 3

Slots == 1 .. MaxInFlight
\* the session ids (cookies) of the callers
Sessions == {1, 2}
\* days the clock may jump in one advance
TickDays == {4, 3000}
SecondsPerDay == 60 * 60 * 24

\* ------------------------------------------------------------- strings
Includes(s, c) == \E i \in 1 .. Len(s) : s[i] = c

Digits == <<"0", "1", "2", "3", "4", "5", "6", "7", "8", "9">>

\* String(n): what redis keeps of a number handed to set()
RECURSIVE IntToStr(_)
IntToStr(n) ==
  IF n < 10 THEN <<Digits[n + 1]>>
  ELSE IntToStr(n \div 10) \o <<Digits[(n % 10) + 1]>>

DigitVal(c) == CHOOSE d \in 0 .. 9 : Digits[d + 1] = c
IsDigit(c) == \E d \in 0 .. 9 : Digits[d + 1] = c

\* NaN: matches no id
NaN == 0

\* parseInt(s): the leading digits of s, NaN when there are none
RECURSIVE ParseDigits(_, _)
ParseDigits(s, acc) ==
  IF s = <<>> \/ ~IsDigit(Head(s)) THEN acc
  ELSE ParseDigits(Tail(s), acc * 10 + DigitVal(Head(s)))

ParseInt(s) == IF s = <<>> \/ ~IsDigit(Head(s)) THEN NaN ELSE ParseDigits(s, 0)

\* ------------------------------------------------------------- inputs
Idents == {<<"a">>, <<"a", "@">>}
\* one password too short for the rules, and two that pass
Short == <<"p", "q">>
Pass1 == <<"p", "q", "r">>
Pass2 == <<"x", "y", "z">>
RegisterInputs == [email : Idents, username : Idents, password : {Short, Pass1}]
LoginPasswords == {Pass1, Pass2}
NewPasswords == {Short, Pass2}

\* ------------------------------------------------------------- values
NoUserId == 0
NoRow == [id |-> 0, username |-> <<>>, email |-> <<>>, password |-> <<>>]
Null == <<>>

FieldError(f, m) == [field |-> f, message |-> m]

FORGOT_PASSWORD_PREFIX == "forget-password:"

\* argon2.hash / argon2.verify: a digest is not the password, and verifies
\* exactly the password it was made from
Hash(password) == <<"$argon2">> \o password

\* a verify that accepts any password
Verify_Always(hash, password) == TRUE

Verify(hash, password) == hash = Hash(password)

Pending == [status |-> "pending", user |-> NoRow, errors |-> <<>>, value |-> FALSE]
ReturnUser(u) == [status |-> "returned", user |-> u, errors |-> <<>>, value |-> FALSE]
ReturnErrors(e) == [status |-> "returned", user |-> NoRow, errors |-> e, value |-> FALSE]
ReturnBool(b) == [status |-> "returned", user |-> NoRow, errors |-> <<>>, value |-> b]
Rejected == [status |-> "rejected", user |-> NoRow, errors |-> <<>>, value |-> FALSE]

NoArgs ==
  [email |-> <<>>, username |-> <<>>, usernameOrEmail |-> <<>>, password |-> <<>>,
   token |-> 0, newPassword |-> <<>>]

IdleSlot ==
  [op |-> "none", pc |-> "idle", sid |-> 0, args |-> NoArgs, id |-> 0, user |-> NoRow,
   token |-> 0, cmds |-> <<>>, result |-> Pending]

VARIABLES
  users,      \* the User table: a set of rows
  session,    \* session store: session id -> userId (NoUserId: no record)
  cookie,     \* the session cookie at the client: "none", "set" or "cleared"
  redis,      \* token store: key -> [value, setAt, ex]
  clock,      \* seconds since the start
  ticks,      \* clock advances so far
  issued,     \* tokens v4() has generated
  outbox,     \* mails handed to the transport
  flushes,    \* persistAndFlush calls that nobody awaits
  granted,    \* tokens for which a changePassword has returned the user
  calls,      \* requests made so far
  slots,      \* the requests
  mounted,    \* the component that calls useIsAuth is mounted
  query,      \* the state of useMeQuery: fetching and data
  router,     \* the object useRouter returns: its pathname and its identity
  route,      \* the URL the browser shows
  render,     \* what the last render of the component read
  effect      \* the effect of the last render, until it has run

server ==
  <<users, session, cookie, redis, clock, ticks, issued, outbox, flushes, granted, calls,
    slots>>

hook == <<mounted, query, router, route, render, effect>>

vars == <<server, hook>>

\* ------------------------------------------------------------- hook values
\* the pages that call useIsAuth
Pathnames == {<<"/create-post">>, <<"/post/edit/[id]">>}

\* data before any result
Undefined == [defined |-> FALSE, me |-> "null", ver |-> 0]

\* a result with me null or a user; ver tells one data object from another
MeData(me, ver) == [defined |-> TRUE, me |-> me, ver |-> ver]

\* an object that is none of those the hook still holds: an identity other
\* than the current one and the one the last render read
Fresh(current, rendered) == CHOOSE v \in 1 .. 3 : v # current /\ v # rendered

NoRouter == [pathname |-> <<>>, id |-> 0]
NoRender == [done |-> FALSE, fetching |-> FALSE, data |-> Undefined, router |-> NoRouter]
NoEffect == [pending |-> FALSE, fetching |-> FALSE, data |-> Undefined, pathname |-> <<>>]

\* no page with the hook is open
HookIdle ==
  /\ mounted = FALSE
  /\ query = [fetching |-> FALSE, data |-> Undefined]
  /\ router = NoRouter
  /\ route = <<>>
  /\ render = NoRender
  /\ effect = NoEffect

\* ------------------------------------------------------------- stores
\* em.findOne(User, where)
FindOne(table, field, value) ==
  IF \E u \in table : u[field] = value
  THEN CHOOSE u \in table : u[field] = value
  ELSE NoRow

\* a lookup that does not look at the id
FindOneById_AnyRow(table, id) ==
  IF table = {} THEN NoRow ELSE CHOOSE u \in table : TRUE

FindOneById(table, id) ==
  IF \E u \in table : u.id = id THEN CHOOSE u \in table : u.id = id ELSE NoRow

RedisKey(token) == <<FORGOT_PASSWORD_PREFIX, token>>

\* the expiry forgotPassword hands to redis.set, and the unit "ex" reads it in
TokenExpiry == 1000 * 60 * 60 * 24 * 3
ExSeconds(n) == n

\* redis.get: null for a key that is absent or past its expiry
RedisGet(store, now, key) ==
  IF key \in DOMAIN store /\ now < store[key].setAt + store[key].ex
  THEN store[key].value
  ELSE Null

\* a del that empties the keyspace
RedisDel_All(store, key) == [k \in {} |-> Null]

RedisDel(store, key) == [k \in DOMAIN store \ {key} |-> store[k]]

RedisSet(store, now, key, value, seconds) ==
  [k \in DOMAIN store \cup {key} |->
     IF k = key THEN [value |-> value, setAt |-> now, ex |-> seconds] ELSE store[k]]

\* a handler that returns the user without writing the session
LogIn_Dropped(sess, sid, id) == sess

\* req.session.userId = id
LogIn(sess, sid, id) == [sess EXCEPT ![sid] = id]

\* a destroy that reports success and leaves the record
Destroy_Kept(sess, sid) == sess

\* req.session.destroy, when the store reports no error
Destroy(sess, sid) == [sess EXCEPT ![sid] = NoUserId]

\* a logout that leaves the cookie with the client
ClearCookie_Skipped(jar, sid) == jar

\* res.clearCookie(COOKIE_NAME): the client drops the cookie it holds
ClearCookie(jar, sid) == [jar EXCEPT ![sid] = IF @ = "set" THEN "cleared" ELSE @]

\* a link that embeds no token
ResetLink_NoToken(token) ==
  <<"<a href=\"http://localhost:3000/change-password/", 0, "\"> reset password </a>">>

\* the reset link sendEmail is given
ResetLink(token) ==
  <<"<a href=\"http://localhost:3000/change-password/", token, "\"> reset password </a>">>

\* ------------------------------------------------------------- requests
NoneDone == \A q \in Slots : slots[q].pc # "done"

\* a call takes the first idle slot
Free(r) ==
  /\ calls < MaxCalls
  /\ NoneDone
  /\ slots[r].pc = "idle"
  /\ \A q \in Slots : q < r => slots[q].pc # "idle"

Call(r, rec) ==
  /\ calls' = calls + 1
  /\ slots' = [slots EXCEPT ![r] = rec]

Resume(r, rec) ==
  /\ slots' = [slots EXCEPT ![r] = rec]
  /\ UNCHANGED calls

Done(rec, res) == [rec EXCEPT !.pc = "done", !.result = res]

\* a row an earlier register(a@, a, pqr) has left in the table
Registered ==
  [id |-> 1, username |-> <<"a">>, email |-> <<"a", "@">>, password |-> Hash(Pass1)]

\* the server starts against a User table that is empty or holds a user; the
\* session store and the token store start empty
ServerIdle ==
  /\ users = {}
  /\ session = [s \in Sessions |-> NoUserId]
  /\ cookie = [s \in Sessions |-> "none"]
  /\ redis = [k \in {} |-> Null]
  /\ clock = 0
  /\ ticks = 0
  /\ issued = 0
  /\ outbox = {}
  /\ flushes = {}
  /\ granted = {}
  /\ calls = 0
  /\ slots = [r \in Slots |-> IdleSlot]

Init ==
  /\ HookIdle
  /\ users \in {{}, {Registered}}
  /\ session = [s \in Sessions |-> NoUserId]
  /\ cookie = [s \in Sessions |-> "none"]
  /\ redis = [k \in {} |-> Null]
  /\ clock = 0
  /\ ticks = 0
  /\ issued = 0
  /\ outbox = {}
  /\ flushes = {}
  /\ granted = {}
  /\ calls = 0
  /\ slots = [r \in Slots |-> IdleSlot]

\* ------------------------------------------------------------- me
Me(r, s) ==
  /\ Free(r)
  /\ LET rec == [IdleSlot EXCEPT !.op = "me", !.sid = s, !.id = session[s]]
     IN  IF session[s] = NoUserId
         THEN Call(r, Done(rec, ReturnUser(NoRow)))
         ELSE Call(r, [rec EXCEPT !.pc = "findOne"])
  /\ UNCHANGED <<users, session, cookie, redis, clock, ticks, issued, outbox, flushes, granted>>
  /\ UNCHANGED hook

MeFindOne(r) ==
  /\ NoneDone
  /\ slots[r].op = "me" /\ slots[r].pc = "findOne"
  /\ Resume(r, Done(slots[r], ReturnUser(FindOneById(users, slots[r].id))))
  /\ UNCHANGED <<users, session, cookie, redis, clock, ticks, issued, outbox, flushes, granted>>
  /\ UNCHANGED hook

\* ------------------------------------------------------------- register
\* validateRegister: the rule set, a length check on the password
ValidateRegister(options) ==
  IF Len(options.password) <= 2
  THEN <<FieldError("password", "length must be greater than 2")>>
  ELSE Null

\* a register that goes on whatever the rules say
Invalid_Ignored(errors) == FALSE

\* if (errors)
Invalid(errors) == errors # Null

\* the call: validation, then argon2.hash is awaited
Register(r, s, options) ==
  /\ Free(r)
  /\ LET rec == [IdleSlot EXCEPT !.op = "register", !.sid = s,
                   !.args = [NoArgs EXCEPT !.email = options.email,
                                           !.username = options.username,
                                           !.password = options.password]]
         errors == ValidateRegister(options)
     IN  IF Invalid(errors)
         THEN Call(r, Done(rec, ReturnErrors(errors)))
         ELSE Call(r, [rec EXCEPT !.pc = "insert"])
  /\ UNCHANGED <<users, session, cookie, redis, clock, ticks, issued, outbox, flushes, granted>>
  /\ UNCHANGED hook

\* a table whose username column is not unique
AlreadyExists_EmailOnly(table, options) ==
  \E u \in table : u.email = options.email

\* a table without unique constraints
AlreadyExists_Never(table, options) == FALSE

\* the unique constraints of the User table
AlreadyExists(table, options) ==
  \E u \in table : u.username = options.username \/ u.email = options.email

NewRow(table, options) ==
  [id |-> Cardinality(table) + 1, username |-> options.username,
   email |-> options.email, password |-> Hash(options.password)]

\* a handler that swallows the failure and returns {user: undefined}
InsertFailure_Swallowed == ReturnUser(NoRow)

\* an insert that fails for a reason other than uniqueness: err.detail has no
\* includes, or user is undefined where its id is read; both throw a TypeError
InsertFailure == Rejected

\* a register that logs the caller in before the insert has succeeded
RegisterInsert_LogsInFirst(r, fault) ==
  /\ NoneDone
  /\ slots[r].op = "register" /\ slots[r].pc = "insert"
  /\ LET rec == slots[r]
         row == NewRow(users, rec.args)
     IN  /\ session' = LogIn(session, rec.sid, row.id)
         /\ cookie' = [cookie EXCEPT ![rec.sid] = "set"]
         /\ IF fault \/ AlreadyExists(users, rec.args)
            THEN users' = users /\ Resume(r, Done(rec, InsertFailure))
            ELSE /\ users' = users \cup {row}
                 /\ Resume(r, Done([rec EXCEPT !.user = row], ReturnUser(row)))
  /\ UNCHANGED <<redis, clock, ticks, issued, outbox, flushes, granted>>
  /\ UNCHANGED hook

\* the hash is there and the insert runs; fault: the insert fails for a
\* reason other than uniqueness, and the handler ends in a TypeError
RegisterInsert(r, fault) ==
  /\ NoneDone
  /\ slots[r].op = "register" /\ slots[r].pc = "insert"
  /\ LET rec == slots[r]
         row == NewRow(users, rec.args)
     IN  IF fault
         THEN /\ Resume(r, Done(rec, InsertFailure))
              /\ UNCHANGED <<users, session, cookie>>
         ELSE IF AlreadyExists(users, rec.args)
         THEN /\ Resume(r, Done(rec, ReturnErrors(
                   <<FieldError("username", "username already taken")>>)))
              /\ UNCHANGED <<users, session, cookie>>
         ELSE /\ users' = users \cup {row}
              /\ session' = LogIn(session, rec.sid, row.id)
              /\ cookie' = [cookie EXCEPT ![rec.sid] = "set"]
              /\ Resume(r, Done([rec EXCEPT !.user = row], ReturnUser(row)))
  /\ UNCHANGED <<redis, clock, ticks, issued, outbox, flushes, granted>>
  /\ UNCHANGED hook

\* ------------------------------------------------------------- login
\* a lookup that falls back on the other column
LoginLookup_OtherColumn(table, usernameOrEmail) ==
  IF \E u \in table : u.email = usernameOrEmail
  THEN FindOne(table, "email", usernameOrEmail)
  ELSE FindOne(table, "username", usernameOrEmail)

\* the where clause of login's findOne
LoginLookup(table, usernameOrEmail) ==
  IF Includes(usernameOrEmail, "@")
  THEN FindOne(table, "email", usernameOrEmail)
  ELSE FindOne(table, "username", usernameOrEmail)

Login(r, s, usernameOrEmail, password) ==
  /\ Free(r)
  /\ LET rec == [IdleSlot EXCEPT !.op = "login", !.sid = s,
                   !.args = [NoArgs EXCEPT !.usernameOrEmail = usernameOrEmail,
                                           !.password = password]]
         user == LoginLookup(users, usernameOrEmail)
     IN  IF user = NoRow
         THEN Call(r, Done(rec, ReturnErrors(
                <<FieldError("usernameOrEmail", "username or email doesn't exist")>>)))
         ELSE Call(r, [rec EXCEPT !.pc = "verify", !.user = user])
  /\ UNCHANGED <<users, session, cookie, redis, clock, ticks, issued, outbox, flushes, granted>>
  /\ UNCHANGED hook

LoginVerify(r) ==
  /\ NoneDone
  /\ slots[r].op = "login" /\ slots[r].pc = "verify"
  /\ LET rec == slots[r]
         valid == Verify(rec.user.password, rec.args.password)
     IN  IF ~valid
         THEN /\ Resume(r, Done(rec, ReturnErrors(
                   <<FieldError("password", "incorrect password")>>)))
              /\ UNCHANGED <<session, cookie>>
         ELSE /\ session' = LogIn(session, rec.sid, rec.user.id)
              /\ cookie' = [cookie EXCEPT ![rec.sid] = "set"]
              /\ Resume(r, Done(rec, ReturnUser(rec.user)))
  /\ UNCHANGED <<users, redis, clock, ticks, issued, outbox, flushes, granted>>
  /\ UNCHANGED hook

\* ------------------------------------------------------------- logout
\* err: the session store reports an error destroying the session
Logout(r, s, err) ==
  /\ Free(r)
  /\ LET rec == [IdleSlot EXCEPT !.op = "logout", !.sid = s]
     IN  IF err
         THEN /\ Call(r, Done(rec, ReturnBool(FALSE)))
              /\ UNCHANGED <<session, cookie>>
         ELSE /\ session' = Destroy(session, s)
              /\ cookie' = ClearCookie(cookie, s)
              /\ Call(r, Done(rec, ReturnBool(TRUE)))
  /\ UNCHANGED <<users, redis, clock, ticks, issued, outbox, flushes, granted>>
  /\ UNCHANGED hook

\* ------------------------------------------------------------- forgotPassword
ForgotPassword(r, email) ==
  /\ Free(r)
  /\ LET rec == [IdleSlot EXCEPT !.op = "forgotPassword",
                   !.args = [NoArgs EXCEPT !.email = email]]
         user == FindOne(users, "email", email)
     IN  IF user = NoRow
         THEN /\ Call(r, Done(rec, ReturnBool(TRUE)))
              /\ UNCHANGED issued
         ELSE /\ issued < MaxTokens
              /\ issued' = issued + 1
              /\ Call(r, [rec EXCEPT !.pc = "redis.set", !.user = user,
                                     !.token = issued + 1])
  /\ UNCHANGED <<users, session, cookie, redis, clock, ticks, outbox, flushes, granted>>
  /\ UNCHANGED hook

ForgotRedisSet(r, fault) ==
  /\ NoneDone
  /\ slots[r].op = "forgotPassword" /\ slots[r].pc = "redis.set"
  /\ LET rec == [slots[r] EXCEPT !.cmds = Append(@, "set")]
     IN  IF fault
         THEN /\ Resume(r, Done(rec, Rejected))
              /\ UNCHANGED redis
         ELSE /\ redis' = RedisSet(redis, clock, RedisKey(rec.token),
                                   IntToStr(rec.user.id), ExSeconds(TokenExpiry))
              /\ Resume(r, [rec EXCEPT !.pc = "sendEmail"])
  /\ UNCHANGED <<users, session, cookie, clock, ticks, issued, outbox, flushes, granted>>
  /\ UNCHANGED hook

ForgotSendEmail(r, fault) ==
  /\ NoneDone
  /\ slots[r].op = "forgotPassword" /\ slots[r].pc = "sendEmail"
  /\ LET rec == slots[r]
     IN  IF fault
         THEN /\ Resume(r, Done(rec, Rejected))
              /\ UNCHANGED outbox
         ELSE /\ outbox' = outbox \cup {[to |-> rec.args.email, html |-> ResetLink(rec.token)]}
              /\ Resume(r, Done(rec, ReturnBool(TRUE)))
  /\ UNCHANGED <<users, session, cookie, redis, clock, ticks, issued, flushes, granted>>
  /\ UNCHANGED hook

\* ------------------------------------------------------------- changePassword
\* the length check, off by one
TooShort_OffByOne(newPassword) == Len(newPassword) < 2

TooShort(newPassword) == Len(newPassword) <= 2

ChangePassword(r, s, token, newPassword) ==
  /\ Free(r)
  /\ LET rec == [IdleSlot EXCEPT !.op = "changePassword", !.sid = s, !.token = token,
                   !.args = [NoArgs EXCEPT !.token = token, !.newPassword = newPassword]]
         userId == RedisGet(redis, clock, RedisKey(token))
     IN  IF TooShort(newPassword)
         THEN Call(r, Done(rec, ReturnErrors(
                <<FieldError("newPassword", "length must be greater than 2")>>)))
         ELSE IF userId = Null
         THEN Call(r, Done([rec EXCEPT !.cmds = <<"get">>], ReturnErrors(
                <<FieldError("token", "token expired")>>)))
         ELSE Call(r, [rec EXCEPT !.cmds = <<"get">>, !.pc = "findOne",
                                  !.id = ParseInt(userId)])
  /\ UNCHANGED <<users, session, cookie, redis, clock, ticks, issued, outbox, flushes, granted>>
  /\ UNCHANGED hook

ChangeFindOne(r) ==
  /\ NoneDone
  /\ slots[r].op = "changePassword" /\ slots[r].pc = "findOne"
  /\ LET rec == slots[r]
         user == FindOneById(users, rec.id)
     IN  IF user = NoRow
         THEN Resume(r, Done(rec, ReturnErrors(
                <<FieldError("token", "user no longer exists")>>)))
         ELSE Resume(r, [rec EXCEPT !.pc = "argon2.hash", !.user = user])
  /\ UNCHANGED <<users, session, cookie, redis, clock, ticks, issued, outbox, flushes, granted>>
  /\ UNCHANGED hook

\* the hash is there: the entity gets it, persistAndFlush is started and not
\* awaited, redis.del is awaited
ChangeHash(r) ==
  /\ NoneDone
  /\ slots[r].op = "changePassword" /\ slots[r].pc = "argon2.hash"
  /\ LET rec == slots[r]
         hashed == Hash(rec.args.newPassword)
     IN  /\ flushes' = flushes \cup {[id |-> rec.user.id, password |-> hashed]}
         /\ Resume(r, [rec EXCEPT !.pc = "redis.del", !.user.password = hashed])
  /\ UNCHANGED <<users, session, cookie, redis, clock, ticks, issued, outbox, granted>>
  /\ UNCHANGED hook

\* a started flush reaches the database, or fails unheard
Flush(f, fault) ==
  /\ NoneDone
  /\ f \in flushes
  /\ flushes' = flushes \ {f}
  /\ users' = IF fault THEN users
              ELSE {IF u.id = f.id THEN [u EXCEPT !.password = f.password] ELSE u : u \in users}
  /\ UNCHANGED <<session, cookie, redis, clock, ticks, issued, outbox, granted, calls, slots>>
  /\ UNCHANGED hook

ChangeRedisDel(r) ==
  /\ NoneDone
  /\ slots[r].op = "changePassword" /\ slots[r].pc = "redis.del"
  /\ LET rec == [slots[r] EXCEPT !.cmds = Append(@, "del")]
     IN  /\ redis' = RedisDel(redis, RedisKey(rec.token))
         /\ session' = LogIn(session, rec.sid, rec.user.id)
         /\ cookie' = [cookie EXCEPT ![rec.sid] = "set"]
         /\ granted' = granted \cup {rec.token}
         /\ Resume(r, Done(rec, ReturnUser(rec.user)))
  /\ UNCHANGED <<users, clock, ticks, issued, outbox, flushes>>
  /\ UNCHANGED hook

\* ------------------------------------------------------------- time
Tick(d) ==
  /\ NoneDone
  /\ ticks < MaxTicks
  /\ ticks' = ticks + 1
  /\ clock' = clock + d * SecondsPerDay
  /\ UNCHANGED <<users, session, cookie, redis, issued, outbox, flushes, granted, calls, slots>>
  /\ UNCHANGED hook

\* ------------------------------------------------------------- responses
\* the response of a handler that has returned (or thrown) leaves the server
Respond(r) ==
  /\ slots[r].pc = "done"
  /\ slots' = [slots EXCEPT ![r] = IdleSlot]
  /\ UNCHANGED <<users, session, cookie, redis, clock, ticks, issued, outbox, flushes,
                 granted, calls>>
  /\ UNCHANGED hook

Next ==
  \/ \E r \in Slots, s \in Sessions : Me(r, s)
  \/ \E r \in Slots : MeFindOne(r)
  \/ \E r \in Slots, s \in Sessions, o \in RegisterInputs : Register(r, s, o)
  \/ \E r \in Slots, fault \in BOOLEAN : RegisterInsert(r, fault)
  \/ \E r \in Slots, s \in Sessions, u \in Idents, p \in LoginPasswords : Login(r, s, u, p)
  \/ \E r \in Slots : LoginVerify(r)
  \/ \E r \in Slots, s \in Sessions, err \in BOOLEAN : Logout(r, s, err)
  \/ \E r \in Slots, e \in Idents : ForgotPassword(r, e)
  \/ \E r \in Slots, fault \in BOOLEAN : ForgotRedisSet(r, fault)
  \/ \E r \in Slots, fault \in BOOLEAN : ForgotSendEmail(r, fault)
  \/ \E r \in Slots, s \in Sessions, t \in 1 .. MaxTokens, p \in NewPasswords :
       ChangePassword(r, s, t, p)
  \/ \E r \in Slots : ChangeFindOne(r)
  \/ \E r \in Slots : ChangeHash(r)
  \/ \E f \in flushes, fault \in BOOLEAN : Flush(f, fault)
  \/ \E r \in Slots : ChangeRedisDel(r)
  \/ \E d \in TickDays : Tick(d)
  \/ \E r \in Slots : Respond(r)

Spec == Init /\ [][Next]_vars

\* ------------------------------------------------------------- useIsAuth
\* data?.me
HasMe(data) == data.defined /\ data.me # "null"

\* "/login?next=" + router.pathname
LoginUrl(pathname) == <<"/login?next=">> \o pathname

\* [router, data]: the effect runs again when one of the two is another
\* object than at the render before
DepsChanged(prev, now) == prev.router # now.router \/ prev.data # now.data

\* a page with the hook is opened: the me query is under way, or its result
\* is already there
InitHook ==
  /\ ServerIdle
  /\ mounted = TRUE
  /\ query \in {[fetching |-> TRUE, data |-> Undefined]}
               \cup {[fetching |-> FALSE, data |-> MeData(me, 1)] : me \in {"null", "user"}}
  /\ router \in {[pathname |-> p, id |-> 1] : p \in Pathnames}
  /\ route = router.pathname
  /\ render = NoRender
  /\ effect = NoEffect

\* the component renders, the first time or because the query state or the
\* router is no longer what it last read: the hook reads fetching, data and
\* router, and its effect is set to run if this is the first render or a
\* dependency has changed.  The effect of a render runs before the next.
UseIsAuth ==
  /\ mounted /\ ~effect.pending
  /\ LET now == [done |-> TRUE, fetching |-> query.fetching, data |-> query.data,
                 router |-> router]
     IN  /\ render # now
         /\ render' = now
         /\ effect' = IF ~render.done \/ DepsChanged(render, now)
                       THEN [pending |-> TRUE, fetching |-> now.fetching,
                             data |-> now.data, pathname |-> now.router.pathname]
                       ELSE NoEffect
  /\ UNCHANGED <<mounted, query, router, route>>
  /\ UNCHANGED server

\* the effect runs, with what its render read; router.replace leaves the page
UseEffect ==
  /\ mounted /\ effect.pending
  /\ effect' = NoEffect
  /\ IF ~effect.fetching /\ ~HasMe(effect.data)
     THEN route' = LoginUrl(effect.pathname) /\ mounted' = FALSE
     ELSE UNCHANGED <<route, mounted>>
  /\ UNCHANGED <<query, router, render>>
  /\ UNCHANGED server

\* the me query settles: with a user, with null, or ("none") with an error
\* and no data at all
MeQueryResult(me) ==
  /\ mounted /\ query.fetching
  /\ query' = [fetching |-> FALSE,
               data |-> IF me = "none" THEN Undefined
                        ELSE MeData(me, Fresh(query.data.ver, render.data.ver))]
  /\ UNCHANGED <<mounted, router, route, render, effect>>
  /\ UNCHANGED server

\* the me query is run again; data stays until the new result
MeQueryRefetch ==
  /\ mounted /\ ~query.fetching
  /\ query' = [query EXCEPT !.fetching = TRUE]
  /\ UNCHANGED <<mounted, router, route, render, effect>>
  /\ UNCHANGED server

\* useRouter returns another object, on the same page
RouterChange ==
  /\ mounted
  /\ router' = [router EXCEPT !.id = Fresh(router.id, render.router.id)]
  /\ UNCHANGED <<mounted, query, route, render, effect>>
  /\ UNCHANGED server

NextHook ==
  \/ UseIsAuth
  \/ UseEffect
  \/ \E me \in {"user", "null", "none"} : MeQueryResult(me)
  \/ MeQueryRefetch
  \/ RouterChange

\* React renders a component whose state has changed and runs the effects of
\* a render; a query under way settles.  Nothing makes the query run again
\* or the router change.
SpecHook ==
  /\ InitHook /\ [][NextHook]_vars
  /\ WF_vars(UseIsAuth) /\ WF_vars(UseEffect)
  /\ WF_vars(\E me \in {"user", "null", "none"} : MeQueryResult(me))

\* ------------------------------------------------------------- reading a step
\* the handler in slot r returns (or throws) in this step
Completes(r) == slots[r].pc # "done" /\ slots'[r].pc = "done"

\* a client calls the handler op in this step, into slot r
Calls(r, op) == slots[r].pc = "idle" /\ slots'[r].pc # "idle" /\ slots'[r].op = op

\* slot r resumes from the await at, in this step
Resumes(r, op, at) ==
  slots[r].op = op /\ slots[r].pc = at /\ slots'[r].pc # at

\* a response with exactly one FieldError, on field f, and no user
IsFieldError(res, f) ==
  /\ res.status = "returned"
  /\ res.user = NoRow
  /\ Len(res.errors) = 1
  /\ res.errors[1].field = f

\* a response with a user and no errors
HasUser(res) == res.status = "returned" /\ res.user # NoRow /\ res.errors = <<>>

\* the row with this id, as the table holds it after the step
StoredAfter(id) == FindOneById(users', id)

\* ------------------------------------------------------------- C1
\* what C1 says of one changePassword request, step by step
C1Step(r) ==
  /\ Calls(r, "changePassword") /\ Len(slots'[r].args.newPassword) > 2
       => LET t == slots'[r].args.token
          IN  \* a second call, after the token has been consumed, is refused
              /\ t \in granted
                   => slots'[r].pc = "done" /\ IsFieldError(slots'[r].result, "token")
              \* a first call with a token forgotPassword has stored goes on
              /\ t \notin granted /\ RedisGet(redis, clock, RedisKey(t)) # Null
                   => slots'[r].pc = "findOne"
  /\ Resumes(r, "changePassword", "findOne") => slots'[r].pc = "argon2.hash"
  /\ Resumes(r, "changePassword", "redis.del")
       => /\ HasUser(slots'[r].result)
          /\ session'[slots[r].sid] = slots'[r].result.user.id
          /\ StoredAfter(slots[r].id).password = Hash(slots[r].args.newPassword)

\* C1: a reset token is consumed exactly once: the first changePassword call
\* with a token that forgotPassword created and a newPassword longer than 2
\* succeeds, has updated the user's stored password and set the caller's
\* session userId when it returns; a second call with the same token returns a
\* FieldError on "token" and no user.
C1_TokenConsumedOnce == [][\A r \in Slots : C1Step(r)]_vars

\* ------------------------------------------------------------- C2
\* C2: of the changePassword requests that present one token, in every
\* interleaving of their steps, at most one returns a user: a request never
\* returns a user for a token another request has already returned a user for.
C2_SingleUseUnderConcurrency ==
  [][\A r \in Slots :
       Completes(r) /\ slots'[r].op = "changePassword" /\ HasUser(slots'[r].result)
         => slots'[r].args.token \notin granted]_vars

\* ------------------------------------------------------------- C3
\* C3: whatever the email, and whatever becomes of the token-store write and
\* of the email dispatch, the caller of forgotPassword is answered true.
C3_ForgotAlwaysTrue ==
  \A r \in Slots :
    slots[r].op = "forgotPassword" /\ slots[r].pc = "done"
      => slots[r].result = ReturnBool(TRUE)

\* ------------------------------------------------------------- C4
ThreeDays == 3 * SecondsPerDay

\* C4: the expiry forgotPassword hands to the token store is 3 days in the
\* unit the store reads it in (seconds); a changePassword call made more than
\* 3 days after the token was stored returns the FieldError on "token", a call
\* made within 3 days is accepted.
C4_ThreeDayExpiry ==
  [][\A r \in Slots :
       /\ Resumes(r, "forgotPassword", "redis.set") /\ slots'[r].pc = "sendEmail"
            => redis'[RedisKey(slots[r].token)].ex = ThreeDays
       /\ Calls(r, "changePassword") /\ Len(slots'[r].args.newPassword) > 2
          /\ RedisKey(slots'[r].args.token) \in DOMAIN redis
            => LET elapsed == clock - redis[RedisKey(slots'[r].args.token)].setAt
               IN  IF elapsed > ThreeDays
                   THEN slots'[r].pc = "done" /\ IsFieldError(slots'[r].result, "token")
                   ELSE slots'[r].pc = "findOne"]_vars

\* ------------------------------------------------------------- C5
NewUser(r) ==
  LET a == slots[r].args
      res == slots'[r].result
  IN  \E row \in users' :
        /\ row \notin users
        /\ users' = users \cup {row}
        /\ Cardinality(users') = Cardinality(users) + 1
        /\ \A u \in users : u.id # row.id
        /\ row.username = a.username /\ row.email = a.email
        /\ HasUser(res) /\ res.user = row
        /\ session' = [session EXCEPT ![slots[r].sid] = row.id]

InsertFailed(r) ==
  slots'[r].result = Rejected /\ users' = users /\ session' = session

Unheld(r) ==
  ~ \E u \in users :
      u.username = slots[r].args.username \/ u.email = slots[r].args.email

\* C5 as claimed: a register that passes validation, with a username and an
\* email no row holds when the insert runs, always succeeds: exactly one row
\* is created, the response carries it and no errors, and the caller's
\* session userId is the new id.
C5_RegisterAlwaysSucceeds ==
  [][\A r \in Slots :
       Resumes(r, "register", "insert") /\ Unheld(r) => NewUser(r)]_vars

\* C5, amended: such a register succeeds as claimed unless the insert fails
\* for a reason other than uniqueness; then the call throws, no row is
\* created and the session is as before.  The call itself (validation)
\* touches neither the table nor the session.
C5_RegisterSucceedsUnlessInsertFails ==
  [][\A r \in Slots :
       /\ Calls(r, "register") => users' = users /\ session' = session
       /\ Resumes(r, "register", "insert") /\ Unheld(r)
            => NewUser(r) \/ InsertFailed(r)]_vars

\* a register has returned the row it created and logged the caller in
C5_Witness ==
  \E r \in Slots :
    /\ slots[r].op = "register" /\ slots[r].pc = "done"
    /\ HasUser(slots[r].result)
    /\ slots[r].result.user \in users
    /\ slots[r].result.user.username = slots[r].args.username
    /\ session[slots[r].sid] = slots[r].result.user.id

\* ------------------------------------------------------------- C6
UsernameHeld(table, username) == \E u \in table : u.username = username

UsernameTaken(res) ==
  IsFieldError(res, "username") /\ res.errors[1].message = "username already taken"

\* C6 as claimed: a register whose username a row already holds answers with
\* exactly one FieldError, on "username" ("username already taken"), and no
\* user; it creates no row and leaves the session as it was.
C6_SecondRegisterUsernameTaken ==
  [][\A r \in Slots :
       /\ Completes(r) /\ slots'[r].op = "register"
       /\ UsernameHeld(users, slots'[r].args.username)
       => /\ UsernameTaken(slots'[r].result)
          /\ users' = users /\ session' = session]_vars

\* C6, amended: when the second call passes validation and so reaches the
\* insert, it creates no row and leaves the session as it was, and it answers
\* with exactly the one FieldError on "username" unless the insert fails for
\* another reason, in which case the call throws.
C6_SecondRegisterRefused ==
  [][\A r \in Slots :
       Resumes(r, "register", "insert") /\ UsernameHeld(users, slots[r].args.username)
         => /\ users' = users /\ session' = session
            /\ UsernameTaken(slots'[r].result) \/ slots'[r].result = Rejected]_vars

\* a register has been refused for a username that a row holds
C6_Witness ==
  \E r \in Slots :
    /\ slots[r].op = "register" /\ slots[r].pc = "done"
    /\ UsernameHeld(users, slots[r].args.username)
    /\ UsernameTaken(slots[r].result)
    /\ session[slots[r].sid] = NoUserId

\* ------------------------------------------------------------- C7
\* the pair is correct: the row's digest is the digest of the password given
CorrectPair(row, password) == row.password = Hash(password)

\* C7: login leaves the table alone; the lookup step leaves the session
\* alone and finds a stored row; with a correct pair the response carries
\* that row and the caller's session userId becomes its id; with a wrong
\* password the response is one FieldError on "password", no user, and the
\* session is exactly as before.
C7_Login ==
  [][\A r \in Slots :
       /\ Calls(r, "login")
            => /\ users' = users /\ session' = session
               /\ slots'[r].pc = "verify" => slots'[r].user \in users
       /\ Resumes(r, "login", "verify")
            => /\ users' = users
               /\ IF CorrectPair(slots[r].user, slots[r].args.password)
                  THEN /\ HasUser(slots'[r].result)
                       /\ slots'[r].result.user = slots[r].user
                       /\ session' = [session EXCEPT ![slots[r].sid] = slots[r].user.id]
                  ELSE /\ IsFieldError(slots'[r].result, "password")
                       /\ session' = session]_vars

\* a login for a stored user with a wrong password has been refused, on a
\* session that is logged in as before
C7_Witness ==
  \E r \in Slots :
    /\ slots[r].op = "login" /\ slots[r].pc = "done"
    /\ slots[r].user \in users
    /\ ~CorrectPair(slots[r].user, slots[r].args.password)
    /\ IsFieldError(slots[r].result, "password")
    /\ session[slots[r].sid] # NoUserId

\* ------------------------------------------------------------- C8
\* C8: changePassword with a newPassword of length <= 2 returns one FieldError
\* on "newPassword" at once: no command goes to the token store, which stays
\* as it was, and neither the table, nor a pending flush, nor the session
\* changes.
C8_ShortPasswordRefused ==
  [][\A r \in Slots :
       Calls(r, "changePassword") /\ Len(slots'[r].args.newPassword) <= 2
         => /\ slots'[r].pc = "done"
            /\ IsFieldError(slots'[r].result, "newPassword")
            /\ slots'[r].cmds = <<>>
            /\ redis' = redis /\ users' = users /\ flushes' = flushes
            /\ session' = session]_vars

\* a too-short password has been refused with a token that is still valid
C8_Witness ==
  \E r \in Slots :
    /\ slots[r].op = "changePassword" /\ slots[r].pc = "done"
    /\ Len(slots[r].args.newPassword) <= 2
    /\ IsFieldError(slots[r].result, "newPassword")
    /\ RedisGet(redis, clock, RedisKey(slots[r].args.token)) # Null

\* ------------------------------------------------------------- C9
\* a session gets a userId only from a register, login or changePassword
\* that returns a user on it
OnlyLoginsSetSession ==
  \A s \in Sessions :
    session[s] = NoUserId /\ session'[s] # NoUserId
      => \E r \in Slots :
           /\ Completes(r) /\ slots'[r].sid = s
           /\ slots'[r].op \in {"register", "login", "changePassword"}
           /\ HasUser(slots'[r].result)

\* me, called on a session without userId, returns null at once
MeAnonymous(r) ==
  Calls(r, "me") /\ session[slots'[r].sid] = NoUserId
    => slots'[r].pc = "done" /\ slots'[r].result = ReturnUser(NoRow)

\* C9 as claimed: once a logout on a session has completed, and until a later
\* register, login or changePassword on it, me on that session returns null.
C9_AfterAnyLogoutMeIsNull ==
  [][/\ \A r \in Slots :
          /\ Calls(r, "logout") => session'[slots'[r].sid] = NoUserId
          /\ MeAnonymous(r)
     /\ OnlyLoginsSetSession]_vars

\* C9, amended: once a logout on a session has returned true, and until a
\* later register, login or changePassword on it, me on that session returns
\* null; a logout that returns false leaves the session as it was.
C9_AfterLogoutMeIsNull ==
  [][/\ \A r \in Slots :
          /\ Calls(r, "logout")
               => IF slots'[r].result.value
                  THEN session'[slots'[r].sid] = NoUserId
                  ELSE session' = session
          /\ MeAnonymous(r)
     /\ OnlyLoginsSetSession]_vars

\* me has returned null on a session that was logged out and not in again
C9_Witness ==
  \E r \in Slots :
    /\ slots[r].op = "me" /\ slots[r].pc = "done"
    /\ slots[r].result = ReturnUser(NoRow)
    /\ cookie[slots[r].sid] = "cleared"
    /\ users # {}

\* ------------------------------------------------------------- C10
Matches(email) == \E u \in users : u.email = email

Mail(r) == [to |-> slots[r].args.email, html |-> ResetLink(slots[r].token)]

\* the token of request r is stored, mapped to the id of the user of its email
Stored(store, r) ==
  /\ RedisKey(slots[r].token) \in DOMAIN store
  /\ \E u \in users :
       /\ u.email = slots[r].args.email
       /\ store[RedisKey(slots[r].token)].value = IntToStr(u.id)

TokenAdded(r) ==
  /\ RedisKey(slots[r].token) \notin DOMAIN redis
  /\ DOMAIN redis' = DOMAIN redis \cup {RedisKey(slots[r].token)}
  /\ \A k \in DOMAIN redis : redis'[k] = redis[k]
  /\ Stored(redis', r)

MailSent(r) ==
  \E m \in outbox' :
    /\ m \notin outbox /\ outbox' = outbox \cup {m}
    /\ m.to = slots[r].args.email
    /\ m.html[2] = slots[r].token

\* only a forgotPassword whose email matched a user stores a token or sends
\* a mail, and it comes to send only by having stored its token
OnlyForgotStoresAndSends ==
  /\ DOMAIN redis' \ DOMAIN redis # {}
       => \E r \in Slots :
            Resumes(r, "forgotPassword", "redis.set") /\ Matches(slots[r].args.email)
  /\ outbox' # outbox
       => \E r \in Slots :
            Resumes(r, "forgotPassword", "sendEmail") /\ Matches(slots[r].args.email)
  /\ \A r \in Slots :
       slots[r].pc # "sendEmail" /\ slots'[r].pc = "sendEmail"
         => Resumes(r, "forgotPassword", "redis.set") /\ TokenAdded(r)

\* C10 as claimed: a forgotPassword whose email matches no user stores and
\* sends nothing; one whose email matches adds exactly one fresh key, mapped
\* to that user's id, and sends exactly one mail, to that address, embedding
\* that token, the token being stored before the mail is dispatched.
C10_MatchStoresAndSends ==
  [][/\ \A r \in Slots :
          /\ Calls(r, "forgotPassword")
               => /\ redis' = redis /\ outbox' = outbox
                  /\ ~Matches(slots'[r].args.email)
                       => slots'[r].pc = "done" /\ slots'[r].result = ReturnBool(TRUE)
                  /\ Matches(slots'[r].args.email) => slots'[r].pc = "redis.set"
          /\ Resumes(r, "forgotPassword", "redis.set")
               => TokenAdded(r) /\ outbox' = outbox /\ slots'[r].pc = "sendEmail"
          /\ Resumes(r, "forgotPassword", "sendEmail")
               => redis' = redis /\ MailSent(r)
     /\ OnlyForgotStoresAndSends]_vars

\* C10, amended: as claimed when the token-store write and the mail
\* transport succeed; when the write fails nothing is stored or sent, when
\* the transport fails the token stays stored and no mail is sent, and in
\* both cases the call throws.
C10_MatchStoresAndSendsUnlessFault ==
  [][/\ \A r \in Slots :
          /\ Calls(r, "forgotPassword")
               => /\ redis' = redis /\ outbox' = outbox
                  /\ ~Matches(slots'[r].args.email)
                       => slots'[r].pc = "done" /\ slots'[r].result = ReturnBool(TRUE)
                  /\ Matches(slots'[r].args.email) => slots'[r].pc = "redis.set"
          /\ Resumes(r, "forgotPassword", "redis.set")
               => \/ TokenAdded(r) /\ outbox' = outbox /\ slots'[r].pc = "sendEmail"
                  \/ /\ redis' = redis /\ outbox' = outbox
                     /\ slots'[r].result = Rejected
          /\ Resumes(r, "forgotPassword", "sendEmail")
               => /\ redis' = redis
                  /\ \/ MailSent(r) /\ slots'[r].result = ReturnBool(TRUE)
                     \/ outbox' = outbox /\ slots'[r].result = Rejected
     /\ OnlyForgotStoresAndSends]_vars

\* a forgotPassword for a registered email has stored its token and sent it
C10_Witness ==
  \E r \in Slots :
    /\ slots[r].op = "forgotPassword" /\ slots[r].pc = "done"
    /\ slots[r].result = ReturnBool(TRUE)
    /\ Stored(redis, r)
    /\ Mail(r) \in outbox

\* ------------------------------------------------------------- C11
\* the column login must look in: email for an identifier with an @,
\* username for one without
Column(usernameOrEmail) == IF Includes(usernameOrEmail, "@") THEN "email" ELSE "username"

OtherColumn(usernameOrEmail) == IF Includes(usernameOrEmail, "@") THEN "username" ELSE "email"

Unique(table) ==
  \A u, v \in table :
    u.username = v.username \/ u.email = v.email \/ u.id = v.id => u = v

\* the other registrations in flight that wait for their insert with the
\* username of request r
Rivals(r) ==
  {q \in Slots \ {r} :
     /\ slots[q].op = "register" /\ slots[q].pc = "insert"
     /\ slots[q].args.username = slots[r].args.username}

\* C12 as claimed: of two concurrent registrations with one username that no
\* row holds, the first to insert creates the row and is logged in, and the
\* other, as every registration with a username that is held, gets "username
\* already taken" with no row created and its session as it was; username
\* and email stay unique.
C12_ExactlyOneWins ==
  [][/\ \A r \in Slots :
          Resumes(r, "register", "insert")
            => IF UsernameHeld(users, slots[r].args.username)
               THEN /\ UsernameTaken(slots'[r].result)
                    /\ users' = users /\ session' = session
               ELSE Rivals(r) # {} => NewUser(r)
     /\ Unique(users')]_vars

\* C12, amended: the first of them to insert creates the row and is logged
\* in when no row holds its email either and its insert does not fail for
\* another reason; from then on the username is held, so every rival is
\* refused.  A registration whose username or email is held creates no row
\* and leaves its session as it was, and gets "username already taken"
\* unless its insert fails for another reason; a registration whose insert
\* fails so throws, with no row created and the session as it was.  username,
\* email and id stay unique.
C12_UniquenessArbitrates ==
  [][/\ \A r \in Slots :
          Resumes(r, "register", "insert")
            => IF ~Unheld(r)
               THEN /\ UsernameTaken(slots'[r].result) \/ slots'[r].result = Rejected
                    /\ users' = users /\ session' = session
               ELSE \/ /\ NewUser(r)
                       /\ \A q \in Rivals(r) :
                            UsernameHeld(users', slots'[q].args.username)
                    \/ InsertFailed(r)
     /\ Unique(users')]_vars

\* a registration has created its row while a rival with the same username
\* still waits for its insert
C12_Witness ==
  \E r \in Slots :
    /\ slots[r].op = "register" /\ slots[r].pc = "done"
    /\ HasUser(slots[r].result) /\ slots[r].result.user \in users
    /\ Rivals(r) # {}

\* ------------------------------------------------------------- C13
\* C13: logout always resolves, with a boolean.  It returns true exactly
\* when the store has destroyed the caller's session, and then the client no
\* longer holds the session cookie; it returns false when the store reports
\* an error, and then the session record and the cookie are as they were.
\* No other session, and no row, changes.
C13_LogoutBoolean ==
  [][\A r \in Slots :
       Calls(r, "logout")
         => LET s == slots'[r].sid
            IN  /\ slots'[r].pc = "done"
                /\ users' = users
                /\ \/ /\ slots'[r].result = ReturnBool(TRUE)
                      /\ session' = [session EXCEPT ![s] = NoUserId]
                      /\ cookie'[s] # "set"
                      /\ \A o \in Sessions \ {s} : cookie'[o] = cookie[o]
                   \/ /\ slots'[r].result = ReturnBool(FALSE)
                      /\ session' = session
                      /\ cookie' = cookie]_vars

\* a logout has returned false on a session that is still logged in and
\* still has its cookie
C13_Witness ==
  \E r \in Slots :
    /\ slots[r].op = "logout" /\ slots[r].pc = "done"
    /\ slots[r].result = ReturnBool(FALSE)
    /\ session[slots[r].sid] # NoUserId
    /\ cookie[slots[r].sid] = "set"

\* ------------------------------------------------------------- C14
\* C14: when the validation rule set reports a violation, register returns
\* exactly that FieldError sequence, and no user, at once: no insert is
\* awaited, the set of User rows is as it was, and so are the sessions, the
\* token store and the mails.
C14_ValidationBeforeMutation ==
  [][\A r \in Slots :
       Calls(r, "register") /\ ValidateRegister(slots'[r].args) # Null
         => /\ slots'[r].pc = "done"
            /\ slots'[r].result = ReturnErrors(ValidateRegister(slots'[r].args))
            /\ slots'[r].result.errors # <<>>
            /\ users' = users /\ session' = session /\ cookie' = cookie
            /\ redis' = redis /\ outbox' = outbox /\ flushes' = flushes]_vars

\* a register has been refused by the rules, with a username and an email
\* that are still free
C14_Witness ==
  \E r \in Slots :
    /\ slots[r].op = "register" /\ slots[r].pc = "done"
    /\ ValidateRegister(slots[r].args) # Null
    /\ slots[r].result = ReturnErrors(ValidateRegister(slots[r].args))
    /\ \A u \in users :
         u.username # slots[r].args.username /\ u.email # slots[r].args.email
    /\ session[slots[r].sid] = NoUserId

\* ------------------------------------------------------------- C15
\* me changes nothing but its own request
MeReadsOnly ==
  /\ session' = session /\ users' = users /\ redis' = redis
  /\ cookie' = cookie /\ outbox' = outbox /\ flushes' = flushes

\* C15: me returns null when the caller's session has no userId; otherwise
\* it returns the row whose id is the userId it read from the session, or
\* null if no row has that id; neither step of me changes the session, the
\* users or the token store.
C15_Me ==
  [][\A r \in Slots :
       /\ Calls(r, "me")
            => /\ MeReadsOnly
               /\ IF session[slots'[r].sid] = NoUserId
                  THEN slots'[r].pc = "done" /\ slots'[r].result = ReturnUser(NoRow)
                  ELSE slots'[r].pc = "findOne" /\ slots'[r].id = session[slots'[r].sid]
       /\ Resumes(r, "me", "findOne")
            => /\ MeReadsOnly
               /\ slots'[r].pc = "done" /\ slots'[r].result.status = "returned"
               /\ LET user == slots'[r].result.user
                  IN  IF \E u \in users : u.id = slots[r].id
                      THEN user \in users /\ user.id = slots[r].id
                      ELSE user = NoRow]_vars

\* me has returned the row of the caller's userId while another row exists
C15_Witness ==
  \E r \in Slots :
    /\ slots[r].op = "me" /\ slots[r].pc = "done"
    /\ slots[r].result.user \in users
    /\ slots[r].result.user.id = session[slots[r].sid]
    /\ \E u \in users : u.id # session[slots[r].sid]

\* ------------------------------------------------------------- C16
\* a UserResponse with a user and no errors, or with errors and no user
Exclusive(res) ==
  \/ res.user # NoRow /\ res.errors = <<>>
  \/ /\ res.user = NoRow /\ res.errors # <<>>
     /\ \A i \in 1 .. Len(res.errors) :
          res.errors[i] = FieldError(res.errors[i].field, res.errors[i].message)

\* C16: when register, login or changePassword completes, it either returns
\* a UserResponse with a populated user and no errors or with a non-empty
\* FieldError sequence and no user, or it returns no response at all: it
\* throws, which only register does, when its insert fails for a reason
\* other than uniqueness.
C16_ExclusiveEnvelope ==
  [][\A r \in Slots :
       Completes(r) /\ slots'[r].op \in {"register", "login", "changePassword"}
         => \/ slots'[r].result.status = "returned" /\ Exclusive(slots'[r].result)
            \/ /\ slots'[r].result = Rejected
               /\ Resumes(r, "register", "insert")]_vars

\* a register whose username and email are free has thrown: its insert
\* failed for another reason, and no response was returned
C16_Witness ==
  \E r \in Slots :
    /\ slots[r].op = "register" /\ slots[r].pc = "done"
    /\ slots[r].result.status = "rejected"
    /\ \A u \in users :
         u.username # slots[r].args.username /\ u.email # slots[r].args.email

\* ------------------------------------------------------------- C17
\* the row of the user of request r holds the hash of its newPassword
Persisted(table, r) ==
  FindOneById(table, slots[r].user.id).password = Hash(slots[r].args.newPassword)

SessionsResolve(sess, table) ==
  \A s \in Sessions : sess[s] # NoUserId => \E u \in table : u.id = sess[s]

\* C18: a session's userId, when present, is the id of an existing row, in
\* every state; a session is written only by a register, login or
\* changePassword that returns a row, with the id of that row; and an insert
\* of register that creates no row, for whatever reason, leaves every
\* session as it was.
C18_SessionUserExists ==
  [][/\ SessionsResolve(session', users')
     /\ \A s \in Sessions :
          session'[s] # session[s] /\ session'[s] # NoUserId
            => \E r \in Slots :
                 /\ Completes(r) /\ slots'[r].sid = s
                 /\ slots'[r].op \in {"register", "login", "changePassword"}
                 /\ HasUser(slots'[r].result)
                 /\ session'[s] = slots'[r].result.user.id
                 /\ \E u \in users' : u.id = slots'[r].result.user.id
     /\ \A r \in Slots :
          Resumes(r, "register", "insert") /\ users' = users
            => session' = session]_vars

\* a register whose insert failed has left the caller logged in as the row
\* it was logged in as
C18_Witness ==
  \E r \in Slots :
    /\ slots[r].op = "register" /\ slots[r].pc = "done"
    /\ ~HasUser(slots[r].result)
    /\ ValidateRegister(slots[r].args) = Null
    /\ session[slots[r].sid] # NoUserId
    /\ \E u \in users : u.id = session[slots[r].sid]

\* ------------------------------------------------------------- C19
\* the sessions of the other callers are as they were
OtherSessionsKept(s) == \A o \in Sessions \ {s} : session'[o] = session[o]

\* every key but this one is as it was, and reads as it did
OtherTokensKept(key) ==
  /\ DOMAIN redis' = DOMAIN redis \ {key}
  /\ \A k \in DOMAIN redis' :
       redis'[k] = redis[k] /\ RedisGet(redis', clock', k) = RedisGet(redis, clock, k)

\* C19: a changePassword that succeeds deletes exactly the token it was
\* given: every other token in the store, those of the same user included,
\* is as it was and reads as it did; and every step of login, logout and
\* changePassword leaves the sessions of the other callers as they were, so
\* that another session of the same user stays logged in.  login and logout
\* leave the token store alone.
C19_OnlyOwnSessionAndToken ==
  [][\A r \in Slots :
       /\ Resumes(r, "changePassword", "redis.del")
            => /\ HasUser(slots'[r].result)
               /\ OtherTokensKept(RedisKey(slots[r].args.token))
       /\ slots'[r] # slots[r] /\ slots'[r].op \in {"login", "logout", "changePassword"}
            => /\ OtherSessionsKept(slots'[r].sid)
               /\ slots'[r].op # "changePassword" => redis' = redis]_vars

\* a changePassword has returned the user while another token of the same
\* user is still in the store and still readable
C19_Witness ==
  \E r \in Slots :
    /\ slots[r].op = "changePassword" /\ slots[r].pc = "done"
    /\ HasUser(slots[r].result)
    /\ RedisKey(slots[r].args.token) \notin DOMAIN redis
    /\ \E t \in 1 .. MaxTokens :
         /\ t # slots[r].args.token
         /\ RedisGet(redis, clock, RedisKey(t)) = IntToStr(slots[r].result.user.id)

\* ------------------------------------------------------------- C20
\* the me query has settled without a user: with null, or with no data
SettledWithoutUser == mounted /\ ~query.fetching /\ ~HasMe(query.data)

Redirected == ~mounted /\ route = LoginUrl(router.pathname)

\* the hook replaces the route only with the login URL of the current
\* pathname, and only from a render that read fetching as false and no user
RedirectsOnlySettledWithoutUser ==
  [][route' # route
       => /\ route' = LoginUrl(router.pathname)
          /\ ~effect.fetching /\ ~HasMe(effect.data)]_vars

\* C20: the hook never redirects while the me query is fetching and never
\* when me returned a user; and whenever the me query has settled without a
\* user, having returned null or no data at all, and stays so, the hook
\* eventually replaces the route with "/login?next=" and the pathname.
C20_RedirectsWhenSettledWithoutUser ==
  /\ RedirectsOnlySettledWithoutUser
  /\ SettledWithoutUser ~> (Redirected \/ ~SettledWithoutUser)

=============================================================================
